---- MODULE Spec2Model ----
(***************************************************************************)
(* A model of libtig.py: the loose-object store (object_write,            *)
(* object_read, repo_dir, repo_file) over a small file system, and the    *)
(* KVLM codec (kvlm_parse, kvlm_serialize).                                *)
(*                                                                         *)
(* Bytes are their integer codes; byte strings are sequences of bytes.    *)
(* Python's 0-based indexing, find() and slicing are modelled by Find,    *)
(* At and Slice so that the -1 of a failed find behaves as it does in     *)
(* the program.                                                            *)
(***************************************************************************)
EXTENDS Integers, Sequences, FiniteSets, TLC

\* ------------------------------------------------------------------ bounds
MaxLen == 1        \* longest blob payload a call writes
MaxCalls == 3      \* calls one process makes
NProcs == 2        \* concurrent processes of the concurrent specification
DigestLen == 3     \* hex digits of a digest (40 in the program)
MaxDigits == 1     \* digits of the length field of a planted file
MaxFields == 3     \* key/value lines of a KVLM input
MaxCut == 2        \* bytes cut off the end of a KVLM buffer
MaxDepth == 6      \* recursion depth at which kvlm_parse gives up

\* ------------------------------------------------------------------- bytes
NUL == 0
LF == 10
SP == 32
Zero == 48
ZlibHeader == 120

Blob == <<98, 108, 111, 98>>
Tree == <<116, 114, 101, 101>>
Commit == <<99, 111, 109, 109, 105, 116>>
Tag == <<116, 97, 103>>
Blub == <<98, 108, 117, 98>>

\* the absent result of a function that returns a byte string or None
None == <<-1>>

\* ------------------------------------------------------ Python primitives
Min(a, b) == IF a < b THEN a ELSE b
Max(a, b) == IF a > b THEN a ELSE b

\* s[i] for a 0-based index i that is in range
At(s, i) == s[i + 1]

\* a slice bound as Python normalises it: negative counts from the end,
\* then clamped to 0..len
Norm(n, i) == IF i < 0 THEN Max(n + i, 0) ELSE Min(i, n)

\* s[i:j]
Slice(s, i, j) ==
    LET a == Norm(Len(s), i)
        b == Norm(Len(s), j)
    IN  IF a >= b THEN <<>> ELSE SubSeq(s, a + 1, b)

\* s[i:]
SliceFrom(s, i) == Slice(s, i, Len(s))

\* s.find(bytes([c]), start): the lowest index >= start holding c, or -1
Find(s, c, start) ==
    LET a == Norm(Len(s), start)
        hits == {i \in a .. (Len(s) - 1) : At(s, i) = c}
    IN  IF hits = {} THEN -1 ELSE CHOOSE i \in hits : \A j \in hits : i <= j

\* str(n).encode() for n >= 0
RECURSIVE ToDecimal(_)
ToDecimal(n) ==
    IF n < 10 THEN <<Zero + n>> ELSE ToDecimal(n \div 10) \o <<Zero + (n % 10)>>

IsSpace(c) == c \in {SP, LF, 9, 11, 12, 13}
IsDigit(c) == c \in Zero .. (Zero + 9)

RECURSIVE LStrip(_)
LStrip(s) == IF s # <<>> /\ IsSpace(Head(s)) THEN LStrip(Tail(s)) ELSE s

RECURSIVE RStrip(_)
RStrip(s) ==
    IF s # <<>> /\ IsSpace(s[Len(s)]) THEN RStrip(SubSeq(s, 1, Len(s) - 1)) ELSE s

RECURSIVE DigitsValue(_)
DigitsValue(s) ==
    IF s = <<>> THEN 0 ELSE DigitsValue(SubSeq(s, 1, Len(s) - 1)) * 10 + (s[Len(s)] - Zero)

\* int(s.decode("ascii")): surrounding white space is dropped, then the rest
\* must be one or more decimal digits; -1 stands for the ValueError
IntOf(s) ==
    LET t == RStrip(LStrip(s))
    IN  IF t # <<>> /\ \A i \in 1 .. Len(t) : IsDigit(t[i]) THEN DigitsValue(t) ELSE -1

\* -------------------------------------------------------------- zlib, sha1
RECURSIVE Sum(_)
Sum(s) == IF s = <<>> THEN 0 ELSE Head(s) + Sum(Tail(s))

\* the stream's trailing checksum
Adler(raw) == (1 + Sum(raw)) % 251

\* zlib.compress(raw): a header byte, a stored block (its length, then the
\* bytes) and the checksum of the bytes
Compress(raw) == <<ZlibHeader, Len(raw)>> \o raw \o <<Adler(raw)>>

\* whether zlib.decompress(f) raises: a bad header, a stream that ends
\* before its block and checksum are complete, or a wrong checksum.  Bytes
\* after the end of the stream are ignored.
DecompressFails(f) ==
    \/ Len(f) < 2
    \/ f[1] # ZlibHeader
    \/ Len(f) < f[2] + 3
    \/ f[f[2] + 3] # Adler(SubSeq(f, 3, f[2] + 2))

\* zlib.decompress(f) when it does not raise
Decompress(f) == SubSeq(f, 3, f[2] + 2)

RECURSIVE PolyHash(_, _)
PolyHash(s, h) ==
    IF s = <<>> THEN h ELSE PolyHash(Tail(s), (h * 17 + Head(s) + 1) % (16 ^ DigestLen))

RECURSIVE ToHex(_, _)
ToHex(n, width) ==
    IF width = 0 THEN <<>> ELSE ToHex(n \div 16, width - 1) \o <<n % 16>>

\* hashlib.sha1(result).hexdigest(): a digest of DigestLen hex digits of the
\* canonical bytes, free of collisions on the contents the model writes
Sha1Hex(result) == ToHex(PolyHash(result, 0), DigestLen)

\* ------------------------------------------------------------- the state
VARIABLES
    dirs,      \* the shard directories that exist under .git/objects
    files,     \* the object files that exist: path -> the bytes the file holds
    pc,        \* where each process is in its call
    op,        \* the call each process is in: "write" or "read"
    arg,       \* object_write's obj.serialize(), the blob payload
    sha,       \* the call's digest
    path,      \* the call's path, as repo_file returned it
    ret,       \* what the call returned or raised
    ncalls,    \* the calls each process has started
    again,     \* object_write: an earlier call had written this content when this one started
    wasSeen,   \* object_read: an earlier call had returned this object when this one started
    firstSha,  \* payload -> the digest its first completed object_write returned
    seen,      \* digest -> the object its first successful object_read returned
    kin,       \* the KVLM input: the fields and message it is built from
    raw,       \* kvlm_parse's buffer
    kpc,       \* where kvlm_parse is
    start,     \* kvlm_parse's cursor
    spc,       \* the position of the space ending the key
    end,       \* the value scan's position
    dct,       \* the ordered mapping being built
    depth,     \* the recursion depth of kvlm_parse
    out        \* what kvlm_serialize returned

storeVars == <<dirs, files, pc, op, arg, sha, path, ret, ncalls, again, wasSeen, firstSha, seen>>
kvlmVars == <<kin, raw, kpc, start, spc, end, dct, depth, out>>
vars == <<storeVars, kvlmVars>>

Procs == 1 .. NProcs

\* the byte strings of length at most n over the bytes in S
RECURSIVE SeqsUpTo(_, _)
SeqsUpTo(S, n) ==
    IF n = 0 THEN {<<>>}
    ELSE LET shorter == SeqsUpTo(S, n - 1)
         IN  shorter \cup {<<c>> \o s : c \in S, s \in {t \in shorter : Len(t) = n - 1}}

PayloadBytes == {120, SP, NUL}
Payloads == SeqsUpTo(PayloadBytes, MaxLen)

\* -------------------------------------------------------- repo_dir, repo_file
NoPath == [none |-> TRUE, dir |-> <<>>, name |-> <<>>]
PathOf(d) == [none |-> FALSE, dir |-> Slice(d, 0, 2), name |-> SliceFrom(d, 2)]

\* os.path.exists(path) of repo_dir, which for a shard directory is also isdir
DirExists(ds, dir) == dir \in ds

\* repo_file(repo, "objects", sha[0:2], sha[2:]) once repo_dir has answered:
\* the path when the directory is there, else None
RepoFile(ds, d) == IF DirExists(ds, PathOf(d).dir) THEN PathOf(d) ELSE NoPath

\* os.path.exists(path) of object_write
PathExistsNever(fs, pth) == FALSE
PathExists(fs, pth) == <<pth.dir, pth.name>> \in DOMAIN fs

\* os.path.isfile(path) of object_read, for a path that is not None
IsFile(fs, pth) == <<pth.dir, pth.name>> \in DOMAIN fs

\* the file system after the bytes b are put at pth
Put(fs, pth, b) ==
    [k \in DOMAIN fs \cup {<<pth.dir, pth.name>>} |->
        IF k = <<pth.dir, pth.name>> THEN b ELSE fs[k]]

\* ------------------------------------------------------------ object_write
\* obj.fmt + b' ' + str(len(data)).encode() + b'\x00' + data
CanonicalOffByOne(fmt, data) == fmt \o <<SP>> \o ToDecimal(Len(data) + 1) \o <<NUL>> \o data
Canonical(fmt, data) == fmt \o <<SP>> \o ToDecimal(Len(data)) \o <<NUL>> \o data

Digest(data) == Sha1Hex(Canonical(Blob, data))
Digests == {Digest(d) : d \in Payloads}

Pending == [kind |-> "pending", val |-> <<>>, err |-> ""]
Returned(kind, val) == [kind |-> kind, val |-> val, err |-> ""]
Raised(err) == [kind |-> "error", val |-> <<>>, err |-> err]

\* ------------------------------------------------------------- object_read
\* object_read from the file's bytes on: decompress, split the header, check
\* the length, pick the constructor
ObjectParse(f) ==
    IF DecompressFails(f) THEN Raised("zlib.error")
    ELSE
      LET r == Decompress(f)
          x == Find(r, SP, 0)
          fmt == Slice(r, 0, x)
          y == Find(r, NUL, x)
          size == IntOf(Slice(r, x, y))
      IN  IF size < 0 THEN Raised("ValueError")
          ELSE IF size # Len(r) - y - 1 THEN Raised("Malformed object")
          ELSE IF fmt \in {Commit, Tree, Tag} THEN Raised("NameError")
          ELSE IF fmt = Blob THEN Returned("blob", SliceFrom(r, y + 1))
          ELSE Raised("Unknown type")

\* ------------------------------------------------- the calls, step by step
Extend(f, k, v) == [x \in DOMAIN f \cup {k} |-> IF x = k THEN v ELSE f[x]]
Remember(f, k, v) == IF k \in DOMAIN f THEN f ELSE Extend(f, k, v)

CanCall(p) == pc[p] \in {"idle", "done"} /\ ncalls[p] < MaxCalls

\* object_write(GitBlob(data), repo) is called: serialize, add the header,
\* compute the hash (lines 110-116)
CallWrite(p, data) ==
    /\ CanCall(p)
    /\ pc' = [pc EXCEPT ![p] = "w_repo_dir"]
    /\ op' = [op EXCEPT ![p] = "write"]
    /\ arg' = [arg EXCEPT ![p] = data]
    /\ sha' = [sha EXCEPT ![p] = Sha1Hex(Canonical(Blob, data))]
    /\ path' = [path EXCEPT ![p] = NoPath]
    /\ ret' = [ret EXCEPT ![p] = Pending]
    /\ ncalls' = [ncalls EXCEPT ![p] = @ + 1]
    /\ again' = [again EXCEPT ![p] = data \in DOMAIN firstSha]
    /\ wasSeen' = [wasSeen EXCEPT ![p] = FALSE]
    /\ UNCHANGED <<dirs, files, firstSha, seen, kvlmVars>>

\* repo_file(..., mkdir=True): repo_dir looks whether the shard directory is
\* there (line 135)
WriteRepoDir(p) ==
    /\ pc[p] = "w_repo_dir"
    /\ pc' = [pc EXCEPT ![p] =
                IF DirExists(dirs, PathOf(sha[p]).dir) THEN "w_exists" ELSE "w_makedirs"]
    /\ path' = [path EXCEPT ![p] = PathOf(sha[p])]
    /\ UNCHANGED <<dirs, files, op, arg, sha, ret, ncalls, again, wasSeen, firstSha, seen, kvlmVars>>

\* os.makedirs(path) (line 142), which raises when the directory has appeared
\* since the check
WriteMakeDirs(p) ==
    /\ pc[p] = "w_makedirs"
    /\ IF DirExists(dirs, path[p].dir)
       THEN /\ pc' = [pc EXCEPT ![p] = "done"]
            /\ ret' = [ret EXCEPT ![p] = Raised("FileExistsError")]
            /\ UNCHANGED dirs
       ELSE /\ pc' = [pc EXCEPT ![p] = "w_exists"]
            /\ dirs' = dirs \cup {path[p].dir}
            /\ UNCHANGED ret
    /\ UNCHANGED <<files, op, arg, sha, path, ncalls, again, wasSeen, firstSha, seen, kvlmVars>>

\* if not os.path.exists(path) (line 122); when the path is there the call
\* returns sha (line 126)
WriteExists(p) ==
    /\ pc[p] = "w_exists"
    /\ IF PathExists(files, path[p])
       THEN /\ pc' = [pc EXCEPT ![p] = "done"]
            /\ ret' = [ret EXCEPT ![p] = Returned("sha", sha[p])]
            /\ firstSha' = Remember(firstSha, arg[p], sha[p])
       ELSE /\ pc' = [pc EXCEPT ![p] = "w_open"]
            /\ UNCHANGED <<ret, firstSha>>
    /\ UNCHANGED <<dirs, files, op, arg, sha, path, ncalls, again, wasSeen, seen, kvlmVars>>

\* open(path, "wb") (line 123): the file is created, or truncated
WriteOpen(p) ==
    /\ pc[p] = "w_open"
    /\ files' = Put(files, path[p], <<>>)
    /\ pc' = [pc EXCEPT ![p] = "w_write"]
    /\ UNCHANGED <<dirs, op, arg, sha, path, ret, ncalls, again, wasSeen, firstSha, seen, kvlmVars>>

\* file.write(zlib.compress(result)), the file is closed, return sha
\* (lines 125-126)
WriteBytes(p) ==
    /\ pc[p] = "w_write"
    /\ files' = Put(files, path[p], Compress(Canonical(Blob, arg[p])))
    /\ pc' = [pc EXCEPT ![p] = "done"]
    /\ ret' = [ret EXCEPT ![p] = Returned("sha", sha[p])]
    /\ firstSha' = Remember(firstSha, arg[p], sha[p])
    /\ UNCHANGED <<dirs, op, arg, sha, path, ncalls, again, wasSeen, seen, kvlmVars>>

\* the process dies inside file.write: the file keeps the first k bytes, and
\* the call returns nothing
Crash(p) ==
    /\ pc[p] = "w_write"
    /\ \E k \in 0 .. (Len(Compress(Canonical(Blob, arg[p]))) - 1) :
          files' = Put(files, path[p], SubSeq(Compress(Canonical(Blob, arg[p])), 1, k))
    /\ pc' = [pc EXCEPT ![p] = "done"]
    /\ ret' = [ret EXCEPT ![p] = Returned("crashed", <<>>)]
    /\ UNCHANGED <<dirs, op, arg, sha, path, ncalls, again, wasSeen, firstSha, seen, kvlmVars>>

\* object_read(repo, d) is called
CallRead(p, d) ==
    /\ CanCall(p)
    /\ pc' = [pc EXCEPT ![p] = "r_repo_file"]
    /\ op' = [op EXCEPT ![p] = "read"]
    /\ arg' = [arg EXCEPT ![p] = <<>>]
    /\ sha' = [sha EXCEPT ![p] = d]
    /\ path' = [path EXCEPT ![p] = NoPath]
    /\ ret' = [ret EXCEPT ![p] = Pending]
    /\ ncalls' = [ncalls EXCEPT ![p] = @ + 1]
    /\ again' = [again EXCEPT ![p] = FALSE]
    /\ wasSeen' = [wasSeen EXCEPT ![p] = d \in DOMAIN seen]
    /\ UNCHANGED <<dirs, files, firstSha, seen, kvlmVars>>

\* path = repo_file(repo, "objects", sha[0:2], sha[2:]) (line 79)
ReadRepoFile(p) ==
    /\ pc[p] = "r_repo_file"
    /\ path' = [path EXCEPT ![p] = RepoFile(dirs, sha[p])]
    /\ pc' = [pc EXCEPT ![p] = "r_isfile"]
    /\ UNCHANGED <<dirs, files, op, arg, sha, ret, ncalls, again, wasSeen, firstSha, seen, kvlmVars>>

\* if not os.path.isfile(path): return None (lines 81-82); os.path.isfile
\* raises TypeError when path is None
ReadIsFile(p) ==
    /\ pc[p] = "r_isfile"
    /\ IF path[p].none
       THEN /\ pc' = [pc EXCEPT ![p] = "done"]
            /\ ret' = [ret EXCEPT ![p] = Raised("TypeError")]
       ELSE IF ~IsFile(files, path[p])
       THEN /\ pc' = [pc EXCEPT ![p] = "done"]
            /\ ret' = [ret EXCEPT ![p] = Returned("None", <<>>)]
       ELSE /\ pc' = [pc EXCEPT ![p] = "r_read"]
            /\ UNCHANGED ret
    /\ UNCHANGED <<dirs, files, op, arg, sha, path, ncalls, again, wasSeen, firstSha, seen, kvlmVars>>

\* the file is opened and read, and the object is built (lines 84-106)
ReadFile(p) ==
    /\ pc[p] = "r_read"
    /\ LET r == ObjectParse(files[<<path[p].dir, path[p].name>>])
       IN  /\ ret' = [ret EXCEPT ![p] = r]
           /\ seen' = IF r.kind = "blob" THEN Remember(seen, sha[p], r) ELSE seen
    /\ pc' = [pc EXCEPT ![p] = "done"]
    /\ UNCHANGED <<dirs, files, op, arg, sha, path, ncalls, again, wasSeen, firstSha, kvlmVars>>

Step(p) ==
    \/ \E data \in Payloads : CallWrite(p, data)
    \/ WriteRepoDir(p)
    \/ WriteMakeDirs(p)
    \/ WriteExists(p)
    \/ WriteOpen(p)
    \/ WriteBytes(p)
    \/ \E d \in Digests : CallRead(p, d)
    \/ ReadRepoFile(p)
    \/ ReadIsFile(p)
    \/ ReadFile(p)

\* ------------------------------------------------------------ the KVLM codec
\* value.replace(b'\n ', b'\n')
RECURSIVE DropContinuation(_)
DropContinuation(s) ==
    IF Len(s) < 2 THEN s
    ELSE IF s[1] = LF /\ s[2] = SP THEN <<LF>> \o DropContinuation(SubSeq(s, 3, Len(s)))
    ELSE <<s[1]>> \o DropContinuation(Tail(s))

\* val.replace(b'\n', b'\n ')
RECURSIVE AddContinuation(_)
AddContinuation(s) ==
    IF s = <<>> THEN <<>>
    ELSE IF Head(s) = LF THEN <<LF, SP>> \o AddContinuation(Tail(s))
    ELSE <<Head(s)>> \o AddContinuation(Tail(s))

\* The OrderedDict: a sequence of entries in insertion order.  An entry holds
\* its key, whether its value is a list, and the value (or the list's values).
Entry(key, isList, vals) == [key |-> key, list |-> isList, vals |-> vals]
HasKey(d, key) == \E i \in 1 .. Len(d) : d[i].key = key
IndexOf(d, key) == CHOOSE i \in 1 .. Len(d) : d[i].key = key

\* lines 281-287: a repeated key's value becomes a list, or grows it
DctInsertOverwrite(d, key, value) ==
    IF HasKey(d, key)
    THEN [d EXCEPT ![IndexOf(d, key)] = Entry(key, FALSE, <<value>>)]
    ELSE Append(d, Entry(key, FALSE, <<value>>))
DctInsert(d, key, value) ==
    IF HasKey(d, key)
    THEN [d EXCEPT ![IndexOf(d, key)] = Entry(key, TRUE, Append(@.vals, value))]
    ELSE Append(d, Entry(key, FALSE, <<value>>))

\* dct[None] = raw[start+1:]: an assignment, which keeps an existing key's place
DctSet(d, key, value) ==
    IF HasKey(d, key)
    THEN [d EXCEPT ![IndexOf(d, key)] = Entry(key, FALSE, <<value>>)]
    ELSE Append(d, Entry(key, FALSE, <<value>>))

\* the lines kvlm_serialize writes for one key (lines 301-307)
RECURSIVE FieldLines(_, _)
FieldLines(key, vals) ==
    IF vals = <<>> THEN <<>>
    ELSE key \o <<SP>> \o AddContinuation(Head(vals)) \o <<LF>> \o FieldLines(key, Tail(vals))

Bytes(b) == [kind |-> "bytes", val |-> b]
NoBytes(kind) == [kind |-> kind, val |-> <<>>]

\* kvlm_serialize (lines 291-312): the loop over the keys skips the message;
\* at the first other key it writes the key's lines, appends the message and
\* returns.  With no other key the function ends without a return.
RECURSIVE KvlmSerializeFrom(_, _)
KvlmSerializeFrom(k, i) ==
    IF i > Len(k) THEN NoBytes("None")
    ELSE IF k[i].key = None THEN KvlmSerializeFrom(k, i + 1)
    ELSE IF ~HasKey(k, None) THEN NoBytes("KeyError")
    ELSE Bytes(FieldLines(k[i].key, k[i].vals)
               \o <<LF>> \o k[IndexOf(k, None)].vals[1] \o <<LF>>)

KvlmSerialize(k) == KvlmSerializeFrom(k, 1)

\* ---- the inputs
KvKeys == {<<97>>, <<98>>}
KvValues == {<<>>, <<120>>, <<120, LF, 121>>}
KvMessages == {<<>>, <<109, LF>>, <<109, SP, 110>>}
KvFields == [key : KvKeys, value : KvValues]

RECURSIVE ListsUpTo(_, _)
ListsUpTo(S, n) ==
    IF n = 0 THEN {<<>>}
    ELSE LET shorter == ListsUpTo(S, n - 1)
         IN  shorter \cup {Append(l, x) : l \in {t \in shorter : Len(t) = n - 1}, x \in S}

\* the well-formed buffer with these fields and this message: a line per
\* field, continuation lines for a value's line breaks, a blank line, the
\* message
RECURSIVE BuildLines(_)
BuildLines(fields) ==
    IF fields = <<>> THEN <<>>
    ELSE Head(fields).key \o <<SP>> \o AddContinuation(Head(fields).value) \o <<LF>>
         \o BuildLines(Tail(fields))

Build(fields, msg) == BuildLines(fields) \o <<LF>> \o msg

\* the mapping the format gives these fields: keys by first occurrence, a
\* key that occurs once with its value, a repeated key with its values in order
ValuesOf(fields, key) ==
    LET f == SelectSeq(fields, LAMBDA x : x.key = key)
    IN  [i \in 1 .. Len(f) |-> f[i].value]

FirstOccurrences(fields) ==
    SelectSeq([i \in 1 .. Len(fields) |-> [key |-> fields[i].key, first |-> \A j \in 1 .. (i - 1) : fields[j].key # fields[i].key]],
              LAMBDA x : x.first)

Mapping(fields, msg) ==
    LET firsts == FirstOccurrences(fields)
    IN  [i \in 1 .. Len(firsts) |->
            Entry(firsts[i].key, Len(ValuesOf(fields, firsts[i].key)) >= 2,
                  ValuesOf(fields, firsts[i].key))]
        \o <<Entry(None, FALSE, <<msg>>)>>

\* ---- kvlm_parse, step by step
\* lines 240-266: find the space and the newline; at a blank line store the
\* message and return, else take the key and start the scan of the value
ParseEntry ==
    /\ kpc = "entry"
    /\ LET s == Find(raw, SP, start)
           nl == Find(raw, LF, start)
       IN  IF s < 0 \/ nl < s
           THEN IF nl = start
                THEN /\ dct' = DctSet(dct, None, SliceFrom(raw, start + 1))
                     /\ kpc' = "done"
                     /\ UNCHANGED <<spc, end>>
                ELSE /\ kpc' = "AssertionError"
                     /\ UNCHANGED <<dct, spc, end>>
           ELSE /\ spc' = s
                /\ end' = start
                /\ kpc' = "scan"
                /\ UNCHANGED dct
    /\ UNCHANGED <<kin, raw, start, depth, out, storeVars>>

\* one turn of the loop of lines 271-274
ParseScan ==
    /\ kpc = "scan"
    /\ LET e == Find(raw, LF, end + 1)
       IN  /\ end' = e
           /\ kpc' = IF e + 1 >= Len(raw) THEN "IndexError"
                     ELSE IF At(raw, e + 1) # SP THEN "insert"
                     ELSE "scan"
    /\ UNCHANGED <<kin, raw, start, spc, dct, depth, out, storeVars>>

\* lines 266-289: the key and the value go into the mapping and kvlm_parse
\* calls itself at end + 1
ParseInsert ==
    /\ kpc = "insert"
    /\ dct' = DctInsert(dct, Slice(raw, start, spc), DropContinuation(Slice(raw, spc + 1, end)))
    /\ IF depth >= MaxDepth
       THEN /\ kpc' = "RecursionError"
            /\ UNCHANGED <<start, depth>>
       ELSE /\ kpc' = "entry"
            /\ start' = end + 1
            /\ depth' = depth + 1
    /\ UNCHANGED <<kin, raw, spc, end, out, storeVars>>

\* kvlm_serialize of the mapping given as input, whose bytes are then parsed
SerializeInput ==
    /\ kpc = "serialize_input"
    /\ out' = KvlmSerialize(Mapping(kin.fields, kin.msg))
    /\ IF out'.kind = "bytes"
       THEN raw' = out'.val /\ kpc' = "entry"
       ELSE raw' = raw /\ kpc' = "AttributeError"
    /\ UNCHANGED <<kin, start, spc, end, dct, depth, storeVars>>

\* kvlm_serialize of the mapping kvlm_parse returned
SerializeResult ==
    /\ kpc = "done"
    /\ kin.mode = "buffer"
    /\ out' = KvlmSerialize(dct)
    /\ kpc' = "serialized"
    /\ UNCHANGED <<kin, raw, start, spc, end, dct, depth, storeVars>>

\* ------------------------------------------------------- the specifications
NoFiles == [k \in {} |-> <<>>]

StoreOff ==
    /\ dirs = {}
    /\ files = NoFiles
    /\ pc = [p \in Procs |-> "idle"]
    /\ op = [p \in Procs |-> "none"]
    /\ arg = [p \in Procs |-> <<>>]
    /\ sha = [p \in Procs |-> <<>>]
    /\ path = [p \in Procs |-> NoPath]
    /\ ret = [p \in Procs |-> Pending]
    /\ ncalls = [p \in Procs |-> 0]
    /\ again = [p \in Procs |-> FALSE]
    /\ wasSeen = [p \in Procs |-> FALSE]
    /\ firstSha = NoFiles
    /\ seen = NoFiles

KvlmOff ==
    /\ kin = [mode |-> "none", fields |-> <<>>, msg |-> <<>>, cut |-> 0]
    /\ raw = <<>>
    /\ kpc = "off"
    /\ start = 0
    /\ spc = 0
    /\ end = 0
    /\ dct = <<>>
    /\ depth = 0
    /\ out = NoBytes("None")

\* the repository as repo_create leaves it: .git/objects exists and is empty
InitStore == StoreOff /\ KvlmOff

\* one process, its calls one after the other
NextSeq == Step(1)
SpecSeq == InitStore /\ [][NextSeq]_vars

\* one process at a time, which may die while it writes a file
NextCrash == Step(1) \/ Crash(1)
SpecCrash == InitStore /\ [][NextCrash]_vars

\* several processes whose steps interleave
NextConc == \E p \in Procs : Step(p)
SpecConc == InitStore /\ [][NextConc]_vars

\* ---- object_read of a file with any content
Digits == Zero .. (Zero + 9)
PlantedRaws ==
    {t \o s \o n \o z \o d :
        t \in {Blob, Tree, Blub}, s \in {<<>>, <<SP>>}, n \in SeqsUpTo(Digits, MaxDigits),
        z \in {<<>>, <<NUL>>}, d \in Payloads}
PlantedFiles ==
    UNION {{SubSeq(Compress(r), 1, k) : k \in 0 .. Len(Compress(r))} \cup {Compress(r) \o <<NUL>>}
           : r \in PlantedRaws}
PlantedDigest == Digest(<<>>)
PlantedKey == <<PathOf(PlantedDigest).dir, PathOf(PlantedDigest).name>>

InitPlanted ==
    /\ \E f \in PlantedFiles :
          /\ files = [k \in {PlantedKey} |-> f]
          /\ again = [p \in Procs |-> FALSE]
    /\ wasSeen = [p \in Procs |-> FALSE]
    /\ dirs = {PathOf(PlantedDigest).dir}
    /\ pc = [p \in Procs |-> "idle"]
    /\ op = [p \in Procs |-> "none"]
    /\ arg = [p \in Procs |-> <<>>]
    /\ sha = [p \in Procs |-> <<>>]
    /\ path = [p \in Procs |-> NoPath]
    /\ ret = [p \in Procs |-> Pending]
    /\ ncalls = [p \in Procs |-> MaxCalls - 1]
    /\ firstSha = NoFiles
    /\ seen = NoFiles
    /\ KvlmOff

NextRead ==
    \/ CallRead(1, PlantedDigest)
    \/ ReadRepoFile(1)
    \/ ReadIsFile(1)
    \/ ReadFile(1)
SpecRead == InitPlanted /\ [][NextRead]_vars

\* ---- the codec: a buffer is parsed and the result serialized, or a mapping
\* is serialized and the result parsed
InitKvlm ==
    /\ StoreOff
    /\ \E fields \in ListsUpTo(KvFields, MaxFields), msg \in KvMessages :
          \/ \E cut \in 0 .. MaxCut :
                /\ cut <= Len(Build(fields, msg))
                /\ kin = [mode |-> "buffer", fields |-> fields, msg |-> msg, cut |-> cut]
                /\ raw = SubSeq(Build(fields, msg), 1, Len(Build(fields, msg)) - cut)
                /\ kpc = "entry"
          \/ /\ kin = [mode |-> "mapping", fields |-> fields, msg |-> msg, cut |-> 0]
             /\ raw = <<>>
             /\ kpc = "serialize_input"
    /\ start = 0
    /\ spc = 0
    /\ end = 0
    /\ dct = <<>>
    /\ depth = 0
    /\ out = NoBytes("None")

NextKvlm ==
    \/ SerializeInput
    \/ ParseEntry
    \/ ParseScan
    \/ ParseInsert
    \/ SerializeResult
SpecKvlm == InitKvlm /\ [][NextKvlm]_vars

\* ------------------------------------------------------------------ claims
FileAt(d) == files[<<PathOf(d).dir, PathOf(d).name>>]
Stored(d) == <<PathOf(d).dir, PathOf(d).name>> \in DOMAIN files
KvlmErrors == {"AssertionError", "IndexError", "RecursionError", "AttributeError"}
WellFormedInput == kin.mode = "buffer" /\ kin.cut = 0

InSecondWrite == op[1] = "write" /\ again[1] /\ pc[1] # "done"

\* C1: a second object_write of content that an earlier call has written
\* returns the digest the first call returned, and no step of it changes the
\* file system: no directory is made, no file is created or truncated.
C1_WriteIdempotent ==
    [][InSecondWrite
        => /\ dirs' = dirs
           /\ files' = files
           /\ pc'[1] = "done" => ret'[1] = Returned("sha", firstSha[arg[1]])]_vars
C1_Witness ==
    /\ pc[1] = "done" /\ op[1] = "write" /\ again[1]
    /\ ret[1].kind = "sha" /\ arg[1] # <<>>

\* C2: once an object_read of a digest has returned the object, every later
\* object_read of that digest returns an equal object, whatever the other
\* processes' object_write calls do meanwhile.
C2_ReadsStable ==
    \A p \in Procs :
        (pc[p] = "done" /\ op[p] = "read" /\ wasSeen[p]) => ret[p] = seen[sha[p]]

\* C3: object_read of a digest that has no stored file returns None, also
\* when the shard directory does not exist.
C3_NotFound ==
    (pc[1] = "done" /\ op[1] = "read" /\ ~Stored(sha[1])) => ret[1] = Returned("None", <<>>)

\* C4: object_read returns an object only when the file decompresses and the
\* decompressed bytes hold a NUL after which exactly the declared number of
\* bytes follow, which are the object's data.
DeclaredLengthHolds(r, data) ==
    \E y \in 0 .. (Len(r) - 1) :
        /\ At(r, y) = NUL
        /\ \E x \in 0 .. (y - 1) :
              /\ At(r, x) = SP
              /\ IntOf(Slice(r, x + 1, y)) = Len(r) - y - 1
        /\ data = SliceFrom(r, y + 1)
C4_FailsClosed ==
    (pc[1] = "done" /\ op[1] = "read" /\ ret[1].kind = "blob")
        => /\ ~DecompressFails(FileAt(sha[1]))
           /\ DeclaredLengthHolds(Decompress(FileAt(sha[1])), ret[1].val)

\* C5: after completed object_write calls, every blob written is stored at
\* objects/<d[0:2]>/<d[2:]> of the digest d its write returned, and
\* object_read of d returns a blob with the payload written.
C5_ReadAfterWrite ==
    \A data \in DOMAIN firstSha :
        /\ firstSha[data] = Digest(data)
        /\ Stored(firstSha[data])
        /\ ObjectParse(FileAt(firstSha[data])) = Returned("blob", data)
        /\ (pc[1] = "done" /\ op[1] = "read" /\ sha[1] = firstSha[data])
              => ret[1] = Returned("blob", data)
C5_Witness ==
    /\ pc[1] = "done" /\ op[1] = "read" /\ ret[1].kind = "blob" /\ ret[1].val # <<>>
    /\ Cardinality(DOMAIN firstSha) >= 2

\* C6: for a well-formed buffer with at least one key line,
\* kvlm_serialize(kvlm_parse(b)) is b, byte for byte.
C6_ByteExact ==
    (kpc = "serialized" /\ WellFormedInput /\ Len(kin.fields) >= 1) => out = Bytes(raw)

\* C7: for a mapping with at least one key, kvlm_parse(kvlm_serialize(k))
\* returns k: the same keys in the same order, the same values, the same message.
C7_RoundTrip ==
    (kin.mode = "mapping" /\ Len(kin.fields) >= 1)
        => /\ kpc \notin KvlmErrors
           /\ kpc = "done" => dct = Mapping(kin.fields, kin.msg)

\* C8: kvlm_parse of a well-formed buffer returns the mapping in which a key
\* that occurs n >= 2 times holds the n values in source order, a key that
\* occurs once holds its plain value, and the keys are in order of first
\* occurrence.
C8_RepeatedKeys ==
    WellFormedInput
        => /\ kpc \notin KvlmErrors
           /\ kpc \in {"done", "serialized"} => dct = Mapping(kin.fields, kin.msg)
C8_Witness ==
    /\ WellFormedInput /\ kpc = "done"
    /\ Len(kin.fields) = 3
    /\ kin.fields[1].key = kin.fields[3].key
    /\ kin.fields[1].key # kin.fields[2].key
    /\ kin.fields[1].value # kin.fields[3].value

\* C9: each step of kvlm_parse that reads a key/value pair calls the next
\* step with a start position greater than its own.
C9_CursorAdvances == kpc = "insert" => end + 1 > start

\* C10: when object_write returns digest d, the file at the path of d holds
\* the complete compressed canonical bytes of the object.
C10_WritePostcondition ==
    (pc[1] = "done" /\ op[1] = "write" /\ ret[1].kind = "sha")
        => /\ Stored(ret[1].val)
           /\ FileAt(ret[1].val) = Compress(Canonical(Blob, arg[1]))

====
